---- MODULE Spec2Model ----
(***************************************************************************)
(* The anomaly scoring and severity-classification pipeline of             *)
(* core/anomaly_detector.py (class AnomalyDetector), with the pydantic     *)
(* models of api/models.py it builds and the settings of core/config.py.   *)
(*                                                                         *)
(* Numbers.  Scores, confidences and thresholds are fixed-point numbers in *)
(* thousandths (0.8 is 800); raw model scores are fixed-point numbers in   *)
(* thousandths too (-1.386 is -1386).  Divisions round to nearest, as the  *)
(* floating-point operations of the source do.                             *)
(*                                                                         *)
(* Scheduling.  Every handler of the source runs on one asyncio event loop *)
(* and none of train, load_model, save_model, predict_single and           *)
(* predict_batch suspends (predict_batch awaits only predict_single, which *)
(* never yields), so each call is one atomic action.                       *)
(***************************************************************************)
EXTENDS Integers, Sequences, FiniteSets, TLC

\* ------------------------------------------------------------------ bounds
\* Cap on the length of training_history (an unbounded list in the source).
MaxHistory == 1
\* Longest batch handed to predict_batch.
MaxBatch == 2
\* The alerts an AlertManager is sent.
MaxAlerts == 2
\* The seconds the clock of the alerts runs for.
MaxClock == 1
\* Trainings asked of POST /model/train, run or waiting.
MaxTasks == 2

\* --------------------------------------------------------------- numbers
\* One, in thousandths.
Unit == 10 ^ 3
\* Magnitude of a raw score beyond the range of exp (np.exp gives inf / 0.0).
Huge == 10 ^ 6
\* float('inf'), the result of an overflowing np.exp.
Inf == 10 ^ 8
\* float('nan'): a feature value that is not a number.
NaN == 0 - (10 ^ 7)

Abs(x) == IF x < 0 THEN 0 - x ELSE x
Min2(a, b) == IF a <= b THEN a ELSE b
\* a / b for b > 0, rounded to nearest.
DivRound(a, b) == (2 * a + b) \div (2 * b)

\* np.exp(x / 1000) * 1000, rounded to nearest, on the exponents the model
\* meets; beyond +-Huge it overflows to inf or underflows to 0.
ExpPoints ==
    << <<-3000, 50>>, <<-1735, 176>>, <<-1386, 250>>, <<-1000, 368>>,
       <<-619, 538>>, <<-500, 607>>, <<-405, 667>>, <<0, 1000>>,
       <<405, 1499>>, <<500, 1649>>, <<619, 1857>>, <<1000, 2718>>, <<1386, 3999>>, <<1735, 5669>>,
       <<3000, 20086>> >>
Exp(x) ==
    IF x >= Huge THEN Inf
    ELSE IF x <= 0 - Huge THEN 0
    ELSE LET i == CHOOSE j \in 1..Len(ExpPoints) : ExpPoints[j][1] = x
         IN  ExpPoints[i][2]

\* -------------------------------------------------------------- settings
\* core/config.py: the defaults of Settings.
ALERT_THRESHOLD_CRITICAL == 800
ALERT_THRESHOLD_WARNING == 600
DEFAULT_CONTAMINATION == 100
DefaultSettings ==
    [ALERT_THRESHOLD_CRITICAL |-> ALERT_THRESHOLD_CRITICAL,
     ALERT_THRESHOLD_WARNING |-> ALERT_THRESHOLD_WARNING]
\* Settings() reads every field from the environment or .env and validates
\* only its type: any pair of floats is accepted.
Settings ==
    {DefaultSettings,
     [ALERT_THRESHOLD_CRITICAL |-> 900, ALERT_THRESHOLD_WARNING |-> 700],
     [ALERT_THRESHOLD_CRITICAL |-> 700, ALERT_THRESHOLD_WARNING |-> 500],
     [ALERT_THRESHOLD_CRITICAL |-> 600, ALERT_THRESHOLD_WARNING |-> 800]}

\* ------------------------------------------------- values of the detector
\* The algorithm names train accepts.
Algorithms == {"isolation_forest", "one_class_svm", "lof"}

\* A training matrix X.  kind "ok": finite numbers; "nan": holds a NaN
\* (StandardScaler skips NaNs, the estimators' fit rejects them); "empty":
\* no rows (StandardScaler.fit raises); "few": finite numbers, fewer rows
\* than a TrainingRequest may ask for.  id names the distribution the rows
\* were drawn from; rows is len(X).
TrainingSet(id, kind) ==
    [id |-> id, kind |-> kind,
     rows |-> CASE kind = "empty" -> 0 [] kind = "few" -> 10 [] OTHER -> 100]

\* TrainingRequest.n_samples: ge.
n_samples_ge == 100

\* The calls of train the callers make: each algorithm train knows, the
\* isolation forest on two different training sets, a name train does not
\* know (algorithm is a str, unchecked by train's signature), a training
\* set of a few rows, one the estimator's fit rejects and one the
\* scaler's fit rejects.
TrainCall(X, algorithm, contamination) ==
    [X |-> X, algorithm |-> algorithm, contamination |-> contamination]
TrainCalls ==
    {TrainCall(TrainingSet(1, "ok"), "isolation_forest", DEFAULT_CONTAMINATION),
     TrainCall(TrainingSet(2, "ok"), "isolation_forest", DEFAULT_CONTAMINATION),
     TrainCall(TrainingSet(1, "few"), "one_class_svm", 300),
     TrainCall(TrainingSet(2, "ok"), "lof", DEFAULT_CONTAMINATION),
     TrainCall(TrainingSet(2, "ok"), "random_forest", DEFAULT_CONTAMINATION),
     TrainCall(TrainingSet(2, "nan"), "isolation_forest", DEFAULT_CONTAMINATION),
     TrainCall(TrainingSet(0, "empty"), "isolation_forest", DEFAULT_CONTAMINATION)}

\* Per-feature mean and spread of the training set with the given id, the
\* parameters a fitted StandardScaler holds (mean_, scale_).
Mean(d) == <<20 + 10 * (d - 1), 1013, 50, 0>>
Scale(d) == <<5 * d, 10, 5, 1>>

\* self.model: None, or an estimator of sklearn (fitted or not); data is the
\* id of the scaled training set it was fitted on.
NoModel ==
    [kind |-> "None", model_type |-> "None", fitted |-> FALSE,
     contamination |-> 0, data |-> 0]
Estimator(algorithm, contamination) ==
    [kind |-> "estimator", model_type |-> algorithm, fitted |-> FALSE,
     contamination |-> contamination, data |-> 0]
\* StandardScaler(): an unfitted scaler.
StandardScaler == [fitted |-> FALSE, data |-> 0]
\* model_info = {}.
NoInfo == [model_type |-> "None", contamination |-> 0, n_samples |-> 0]

\* AnomalyDetector.__init__
AnomalyDetector ==
    [model |-> NoModel,
     scaler |-> StandardScaler,
     is_ready |-> FALSE,
     model_info |-> NoInfo,
     training_history |-> <<>>]

\* ------------------------------------------------ sklearn, at the boundary
\* scaler.fit_transform(X): fits the scaler in place.  StandardScaler.fit
\* resets the scaler before it validates X, so a fit that raises may leave
\* the scaler unfitted (resets) or, in a build that validates first,
\* untouched.
fit_transform(scaler, X, resets) ==
    IF X.kind = "empty"
    THEN [raised |-> "ValueError",
          scaler |-> IF resets THEN StandardScaler ELSE scaler]
    ELSE [raised |-> "none", scaler |-> [fitted |-> TRUE, data |-> X.id]]

\* model.fit(X_scaled): raises on a matrix that holds a NaN, and leaves the
\* estimator unfitted then.
fit(model, X) ==
    IF X.kind = "nan"
    THEN [raised |-> "ValueError", model |-> model]
    ELSE [raised |-> "none", model |-> [model EXCEPT !.fitted = TRUE, !.data = X.id]]

\* scaler.transform(features): (x - mean_) / scale_ per feature, NaN kept.
transform(scaler, features) ==
    [i \in 1..4 |->
        IF features[i] = NaN THEN NaN
        ELSE DivRound(features[i] - Mean(scaler.data)[i], Scale(scaler.data)[i])]

\* The raw scores a fitted estimator of each kind gives, from the most
\* normal sample to the most anomalous one.  An isolation forest's lie in
\* [-1, 0]; a one-class SVM's have either sign; a local outlier factor's
\* are at most about -1 and reach -1e10 on duplicated points.
RawScores(model_type) ==
    CASE model_type = "isolation_forest" -> <<-405, -500, -619, -1000>>
      [] model_type = "one_class_svm" -> <<3000, 405, 0, -405, -1386, -3000>>
      [] OTHER -> <<-1000, -1386, -1735, -3000, 0 - Huge>>

\* model.score_samples(features_scaled)[0]: the further the scaled sample
\* lies from the training set the forest, SVM or LOF was fitted on, the
\* lower its raw score.
score_samples(model, features_scaled) ==
    LET distance == Abs(features_scaled[1]) + Abs(features_scaled[2])
                      + Abs(features_scaled[3]) + Abs(features_scaled[4])
                      + (model.data - 1)
        ladder == RawScores(model.model_type)
    IN  ladder[1 + Min2(distance, Len(ladder) - 1)]

\* The estimator's offset_: the raw score below which it calls a sample an
\* outlier; it follows the contamination the estimator was built with.
offset(model) ==
    LET ladder == RawScores(model.model_type)
    IN  IF model.contamination >= 300 THEN ladder[2] ELSE ladder[3]

\* model.predict(features_scaled)[0]: -1 for an outlier, 1 for an inlier.
predict(model, features_scaled) ==
    IF score_samples(model, features_scaled) < offset(model) THEN -1 ELSE 1

\* ------------------------------------------------------- api/models.py
\* SensorData: the readings handed to the detector.  The last one holds a
\* NaN: SensorData's range checks run when the object is built from a
\* request, not when a field is assigned afterwards.
SensorReadings ==
    {[sensor_id |-> 1, temperature |-> 20, pressure |-> 1013, humidity |-> 50, vibration |-> 0],
     [sensor_id |-> 2, temperature |-> 45, pressure |-> 1003, humidity |-> 50, vibration |-> 2],
     [sensor_id |-> 3, temperature |-> NaN, pressure |-> 1013, humidity |-> 50, vibration |-> 0],
     [sensor_id |-> 4, temperature |-> 30, pressure |-> 1013, humidity |-> 50, vibration |-> 0]}

\* Variant of the range checks: the vibration is not checked.
SensorData_without_vibration_check(fields) ==
    IF /\ fields.temperature # NaN /\ -50 <= fields.temperature /\ fields.temperature <= 100
       /\ 900 <= fields.pressure /\ fields.pressure <= 1100
       /\ 0 <= fields.humidity /\ fields.humidity <= 100
    THEN [raised |-> "none", data |-> fields]
    ELSE [raised |-> "ValidationError", data |-> fields]

\* SensorData(...): the range checks of the four fields (ge, le); a NaN
\* fails every comparison.
SensorData(fields) ==
    IF /\ fields.temperature # NaN /\ -50 <= fields.temperature /\ fields.temperature <= 100
       /\ 900 <= fields.pressure /\ fields.pressure <= 1100
       /\ 0 <= fields.humidity /\ fields.humidity <= 100
       /\ 0 <= fields.vibration /\ fields.vibration <= 10
    THEN [raised |-> "none", data |-> fields]
    ELSE [raised |-> "ValidationError", data |-> fields]

\* BatchSensorData.readings: min_items, max_items.
min_items == 1
max_items == 1000

\* A list of readings too long to write out: the readings of head, followed
\* by extra more readings that are valid, all alike but for their
\* sensor_ids, which differ from each other and from those of head.
ReadingList(head, extra) == [head |-> head, extra |-> extra]
Length(readings) == Len(readings.head) + readings.extra
UniqueSensorIds(readings) ==
    \A i, j \in 1..Len(readings.head) :
        readings.head[i].sensor_id = readings.head[j].sensor_id => i = j

\* Variant of BatchSensorData: check_unique_sensor_ids is left out.
BatchSensorData_without_unique_check(readings) ==
    IF \E i \in 1..Len(readings.head) : SensorData(readings.head[i]).raised # "none"
    THEN [raised |-> "ValidationError", readings |-> readings]
    ELSE IF Length(readings) < min_items \/ Length(readings) > max_items
    THEN [raised |-> "ValidationError", readings |-> readings]
    ELSE [raised |-> "none", readings |-> readings]

\* BatchSensorData(readings=...): every reading is a SensorData, the list
\* holds min_items to max_items of them, and check_unique_sensor_ids
\* rejects a repeated sensor_id.
BatchSensorData(readings) ==
    IF \E i \in 1..Len(readings.head) : SensorData(readings.head[i]).raised # "none"
    THEN [raised |-> "ValidationError", readings |-> readings]
    ELSE IF Length(readings) < min_items \/ Length(readings) > max_items
    THEN [raised |-> "ValidationError", readings |-> readings]
    ELSE IF ~UniqueSensorIds(readings)
    THEN [raised |-> "ValueError: Duplicate sensor_ids", readings |-> readings]
    ELSE [raised |-> "none", readings |-> readings]

\* The recommendation lists of predict_single.
CriticalActions ==
    <<"Immediate investigation required", "Check sensor for faults",
      "Review recent sensor history">>
WarningActions == <<"Monitor sensor closely", "Check for environmental changes">>
InfoActions == <<"Continue normal monitoring">>

\* No PredictionResponse (the call raised).
NoResponse ==
    [sensor_id |-> 0, is_anomaly |-> FALSE, anomaly_score |-> 0, confidence |-> 0,
     severity |-> "none", recommendations |-> <<>>]

\* No BatchPredictionResponse.  Of the predictions of a list of readings,
\* those of head are written out; the extra others are all filler.
NoBatchResponse ==
    [predictions |-> [head |-> <<>>, extra |-> 0, filler |-> NoResponse],
     summary |-> [total_readings |-> 0, anomalies_detected |-> 0, anomaly_rate |-> 0,
                  average_anomaly_score |-> 0, critical_anomalies |-> 0]]

\* Variant of the validator: the comparisons are not strict.
set_severity_inclusive(v, anomaly_score) ==
    IF anomaly_score >= 800 THEN "critical"
    ELSE IF anomaly_score >= 600 THEN "warning"
    ELSE "info"

\* PredictionResponse.set_severity_based_on_score: the validator of the
\* severity field (always=True) replaces whatever severity was passed.
set_severity_based_on_score(v, anomaly_score) ==
    IF anomaly_score > 800 THEN "critical"
    ELSE IF anomaly_score > 600 THEN "warning"
    ELSE "info"

\* PredictionResponse(...): the fields are validated (anomaly_score and
\* confidence within [0, 1]) and severity goes through its validator.
PredictionResponse(sensor_id, is_anomaly, anomaly_score, confidence, severity, recommendations) ==
    IF anomaly_score < 0 \/ anomaly_score > Unit \/ confidence < 0 \/ confidence > Unit
    THEN [raised |-> "ValidationError", response |-> NoResponse]
    ELSE [raised |-> "none",
          response |->
            [sensor_id |-> sensor_id,
             is_anomaly |-> is_anomaly,
             anomaly_score |-> anomaly_score,
             confidence |-> confidence,
             severity |-> set_severity_based_on_score(severity, anomaly_score),
             recommendations |-> recommendations]]

\* ------------------------------------------- core/anomaly_detector.py
\* A file of the model directory: absent, something joblib cannot load or
\* that is no dict ("garbage"), or a pickled dict with some of the keys
\* 'model', 'scaler', 'model_info'.
NoFile ==
    [kind |-> "absent", has_model |-> FALSE, model |-> NoModel,
     has_scaler |-> FALSE, scaler |-> StandardScaler,
     has_info |-> FALSE, model_info |-> NoInfo]
Garbage == [NoFile EXCEPT !.kind = "garbage"]
Bundle(model, scaler, model_info) ==
    [kind |-> "dict", has_model |-> TRUE, model |-> model,
     has_scaler |-> TRUE, scaler |-> scaler,
     has_info |-> TRUE, model_info |-> model_info]

\* Variant of the except branch: a failed load marks the detector not ready.
load_failed_not_ready(self) == [ret |-> FALSE, self |-> [self EXCEPT !.is_ready = FALSE]]

\* load_model, the except branch: the exception is printed and False
\* returned; what was assigned before it was raised stays assigned.
load_failed(self) == [ret |-> FALSE, self |-> self]

\* AnomalyDetector.load_model, on the content of the file at model_path.
load_model(self, file) ==
    IF file.kind # "dict" \/ ~file.has_model
    THEN load_failed(self)                       \* joblib.load or ['model'] raises
    ELSE LET s1 == [self EXCEPT !.model = file.model]
         IN  IF ~file.has_scaler
             THEN load_failed(s1)                \* ['scaler'] raises KeyError
             ELSE [ret |-> TRUE,
                   self |-> [s1 EXCEPT
                       !.scaler = file.scaler,
                       !.model_info = IF file.has_info THEN file.model_info ELSE NoInfo,
                       !.is_ready = TRUE]]

\* Variant of the saved dict: model_info is left empty.
save_data_without_info(self) == Bundle(self.model, self.scaler, NoInfo)

\* AnomalyDetector.save_model: what joblib.dump writes when it succeeds.
save_data(self) == Bundle(self.model, self.scaler, self.model_info)

\* AnomalyDetector.save_model: the file at model_path after the call.
\* joblib.dump may raise (outcome "failed": the file is untouched, or
\* "truncated": a partial file is left); False is returned then.
save_model(self, old_file, outcome) ==
    CASE outcome = "written" -> [ret |-> TRUE, file |-> save_data(self)]
      [] outcome = "truncated" -> [ret |-> FALSE, file |-> Garbage]
      [] OTHER -> [ret |-> FALSE, file |-> old_file]

\* train, "Update model info".
model_info_of(algorithm, contamination, X) ==
    [model_type |-> algorithm, contamination |-> contamination, n_samples |-> X.rows]

\* train, the entry appended to training_history.
history_entry(algorithm, contamination, X) ==
    [algorithm |-> algorithm, samples |-> X.rows, contamination |-> contamination]

\* AnomalyDetector.train.  The scaler is fitted in place first, then
\* self.model is assigned a new estimator, then the estimator is fitted;
\* an exception leaves whatever was assigned before it.
train(self, X, algorithm, contamination, resets) ==
    LET scaled == fit_transform(self.scaler, X, resets)
        s1 == [self EXCEPT !.scaler = scaled.scaler]
        s2 == [s1 EXCEPT !.model = Estimator(algorithm, contamination)]
        fitted == fit(s2.model, X)
        s3 == [s2 EXCEPT !.model = fitted.model]
    IN  IF scaled.raised # "none"
        THEN [raised |-> scaled.raised, self |-> s1]
        ELSE IF algorithm \notin Algorithms
        THEN [raised |-> "ValueError: Unknown algorithm", self |-> s1]
        ELSE IF fitted.raised # "none"
        THEN [raised |-> fitted.raised, self |-> s3]
        ELSE [raised |-> "none",
              self |-> [s3 EXCEPT
                  !.model_info = model_info_of(algorithm, contamination, X),
                  !.is_ready = TRUE,
                  !.training_history =
                      Append(@, history_entry(algorithm, contamination, X))]]

\* Variant of the readiness guard: the model is tested instead of is_ready.
model_is_none(self) == self.model.kind = "None"

\* predict_single, the readiness guard.
model_not_trained(self) == ~self.is_ready

\* predict_single, "Convert to anomaly score": the logistic squashing of
\* the negated raw score, or the fallback for an estimator without
\* score_samples.
anomaly_score_of(model, prediction, raw) ==
    IF model.model_type \in Algorithms          \* hasattr(model, 'score_samples')
    THEN LET anomaly_score == 0 - raw
         IN  DivRound(Unit * Unit, Unit + Exp(0 - anomaly_score))
    ELSE IF prediction = -1 THEN 500 ELSE 100

\* predict_single, "Determine severity".
severity_of(settings, anomaly_score) ==
    IF anomaly_score > settings.ALERT_THRESHOLD_CRITICAL
    THEN [severity |-> "critical", recommendations |-> CriticalActions]
    ELSE IF anomaly_score > settings.ALERT_THRESHOLD_WARNING
    THEN [severity |-> "warning", recommendations |-> WarningActions]
    ELSE [severity |-> "info", recommendations |-> InfoActions]

\* Variant of the confidence: the cap at 1.0 is left out.
confidence_unclamped(anomaly_score) == DivRound(3 * anomaly_score, 2)

\* predict_single, min(anomaly_score * 1.5, 1.0).
confidence_of(anomaly_score) == Min2(DivRound(3 * anomaly_score, 2), Unit)

Raise(exception) == [raised |-> exception, response |-> NoResponse]

\* Variant of the response: is_anomaly is reconciled with the severity.
to_response_reconciled(model, settings, sensor_id, prediction, raw) ==
    LET anomaly_score == anomaly_score_of(model, prediction, raw)
        band == severity_of(settings, anomaly_score)
    IN  PredictionResponse(sensor_id, band.severity # "info",
                           anomaly_score, confidence_of(anomaly_score),
                           band.severity, band.recommendations)

\* predict_single, from "Convert to anomaly score" to the return: the
\* PredictionResponse built from the estimator's two outputs.
to_response(model, settings, sensor_id, prediction, raw) ==
    LET anomaly_score == anomaly_score_of(model, prediction, raw)
        band == severity_of(settings, anomaly_score)
    IN  PredictionResponse(sensor_id, prediction = -1,
                           anomaly_score, confidence_of(anomaly_score),
                           band.severity, band.recommendations)

\* AnomalyDetector.predict_single
predict_single(self, settings, sensor_data) ==
    LET features == <<sensor_data.temperature, sensor_data.pressure,
                      sensor_data.humidity, sensor_data.vibration>>
        features_scaled == transform(self.scaler, features)
        prediction == predict(self.model, features_scaled)
        raw == score_samples(self.model, features_scaled)
    IN  IF model_not_trained(self)
        THEN Raise("ValueError: Model not trained")
        ELSE IF ~self.scaler.fitted
        THEN Raise("NotFittedError")             \* scaler.transform
        ELSE IF self.model.kind = "None"
        THEN Raise("AttributeError")             \* None.predict
        ELSE IF ~self.model.fitted
        THEN Raise("NotFittedError")             \* model.predict
        ELSE IF \E i \in 1..4 : features_scaled[i] = NaN
        THEN Raise("ValueError: Input contains NaN")
        ELSE to_response(self.model, settings, sensor_data.sensor_id, prediction, raw)

\* AnomalyDetector.predict_batch: the readings are scored in order; the
\* first exception of predict_single leaves the loop and the call.
predict_batch(self, settings, sensor_readings) ==
    LET one(i) == predict_single(self, settings, sensor_readings[i])
        failing == {i \in 1..Len(sensor_readings) : one(i).raised # "none"}
    IN  IF failing = {}
        THEN [raised |-> "none",
              predictions |-> [i \in 1..Len(sensor_readings) |-> one(i).response]]
        ELSE [raised |-> one(CHOOSE i \in failing : \A j \in failing : i <= j).raised,
              predictions |-> <<>>]

\* AnomalyDetector.get_model_info
get_model_info(self) ==
    IF ~self.is_ready THEN [status |-> "No model loaded", info |-> NoInfo]
    ELSE [status |-> "ok", info |-> self.model_info]

\* ------------------------------------------------------------ the state
VARIABLES
    detector,       \* the AnomalyDetector instance (core.anomaly_detector.detector)
    settings,       \* core.config.settings
    files,          \* the content of each path of the model directory
    last,           \* the last call: its name, argument and outcome
    initialised,    \* history: a train or a load_model has succeeded on detector
    saved,          \* history: per path, what save_model last wrote from a ready detector
    scoring,        \* the scoring of one pair of estimator outputs (SpecScoring)
    returned,       \* history: what POST /predict has answered (SpecPredict)
    request,        \* the last request to a prediction endpoint and the calls of
                    \* the detector it led to (SpecApi)
    alerts,         \* the AlertManager, the clock and the alert endpoints
                    \* (SpecAlerts, SpecAlertsApi)
    tasks,          \* the background tasks POST /model/train has added and that
                    \* have not run yet, oldest first (SpecTraining)
    app             \* api.main: its own global detector (None until startup) and
                    \* whether startup_event has completed (SpecStartup)

vars ==
    <<detector, settings, files, last, initialised, saved, scoring, returned, request,
      alerts, tasks, app>>

\* settings.MODEL_PATH
Paths == {"models/anomaly_detector.joblib"}

\* Files that something other than save_model may have put at a path: no
\* dict at all, or a dict with any of the three keys missing.
ForeignModel == [Estimator("isolation_forest", DEFAULT_CONTAMINATION) EXCEPT !.fitted = TRUE, !.data = 1]
ForeignScaler == [fitted |-> TRUE, data |-> 1]
ForeignInfo == [model_type |-> "isolation_forest", contamination |-> DEFAULT_CONTAMINATION, n_samples |-> 100]
ForeignBundle == Bundle(ForeignModel, ForeignScaler, ForeignInfo)
ForeignFiles ==
    {Garbage,
     ForeignBundle,
     [ForeignBundle EXCEPT !.has_model = FALSE, !.model = NoModel],
     [ForeignBundle EXCEPT !.has_scaler = FALSE, !.scaler = StandardScaler],
     [ForeignBundle EXCEPT !.has_info = FALSE, !.model_info = NoInfo]}

\* The batches handed to predict_batch: up to MaxBatch readings of
\* different sensors, of the first three of SensorReadings.
Batches ==
    {b \in UNION {[1..n -> {sd \in SensorReadings : sd.sensor_id <= 3}] : n \in 1..MaxBatch} :
        \A i, j \in 1..Len(b) : b[i].sensor_id = b[j].sensor_id => i = j}

\* The scaler and the model of a detector belong together: both fitted, on
\* the same training set.
Paired(self) ==
    /\ self.scaler.fitted
    /\ self.model.kind = "estimator"
    /\ self.model.fitted
    /\ self.model.data = self.scaler.data

NotSaved == [valid |-> FALSE, model |-> NoModel, scaler |-> StandardScaler, model_info |-> NoInfo]

\* A call and its outcome: ok is whether it returned normally (and, for
\* load_model and save_model, returned True).
Call(op, arg, ok) == [op |-> op, arg |-> arg, ok |-> ok, paired_before |-> FALSE]

\* ------------------------------------------------ alerts/alert_manager.py
\* The notification sinks of AlertManager.send_alert.
Sinks == {"email", "slack", "teams"}

\* AlertManager.load_config: which sinks are enabled.  The configuration is
\* written out in the method; the file at config_path is not read.
load_config == [email |-> TRUE, slack |-> FALSE, teams |-> FALSE]

\* AlertManager.setup_logger.
setup_logger == "logger"

\* AlertManager.__init__
AlertManager ==
    [config |-> load_config, logger |-> setup_logger, alert_history |-> <<>>]

\* AlertManager.send_email_alert: the exception that leaves the method.
\* The SMTP calls are inside try/except; a failure is logged.
send_email_alert(self, alert_message, fails) == "none"

\* AlertManager.send_slack_alert and send_teams_alert: a failure of the
\* webhook is logged and does not leave the method.
send_slack_alert(self, alert_message, fails) == "none"
send_teams_alert(self, alert_message, fails) == "none"

\* No alert_id (the call raised).
NoAlertId == 0 - 1

\* AlertManager.send_alert, at the second now of the clock, when the
\* transports of the sinks in failing fail.  alert_id is the time to the
\* second; the record is appended before the sinks are tried; attempted
\* are the sinks whose send method was called.
send_alert(self, anomaly_data, severity, now, failing) ==
    LET alert_id == now
        alert_message ==
            [alert_id |-> alert_id, severity |-> severity, data |-> anomaly_data,
             status |-> "triggered"]
        s1 == [self EXCEPT !.alert_history = Append(@, alert_message)]
        email == IF self.config.email
                 THEN send_email_alert(s1, alert_message, "email" \in failing) ELSE "none"
        slack == IF self.config.slack
                 THEN send_slack_alert(s1, alert_message, "slack" \in failing) ELSE "none"
        teams == IF self.config.teams
                 THEN send_teams_alert(s1, alert_message, "teams" \in failing) ELSE "none"
        enabled == {sink \in Sinks : self.config[sink]}
    IN  IF email # "none"
        THEN [raised |-> email, alert_id |-> NoAlertId, self |-> s1,
              attempted |-> enabled \cap {"email"}]
        ELSE IF slack # "none"
        THEN [raised |-> slack, alert_id |-> NoAlertId, self |-> s1,
              attempted |-> enabled \cap {"email", "slack"}]
        ELSE IF teams # "none"
        THEN [raised |-> teams, alert_id |-> NoAlertId, self |-> s1,
              attempted |-> enabled]
        ELSE [raised |-> "none", alert_id |-> alert_id, self |-> s1,
              attempted |-> enabled]

\* ----------------------------------------------------- alerts/notifier.py
\* AlertSystem.send_email_alert: the exception that leaves the method.  The
\* SMTP calls are not inside a try.
notifier_send_email_alert(anomaly_data, fails) ==
    IF fails THEN "SMTPException" ELSE "none"

\* AlertSystem.send_slack_alert: requests.post raises when the webhook
\* cannot be reached.
notifier_send_slack_alert(anomaly_data, fails) ==
    IF fails THEN "ConnectionError" ELSE "none"

\* What the last sending of an alert did: through which class, which sinks
\* were enabled, which transports failed, which sinks were tried, the
\* exception the caller got and the alert_id returned.
Sent(via, enabled, failing, attempted, raised, alert_id) ==
    [via |-> via, enabled |-> enabled, failing |-> failing, attempted |-> attempted,
     raised |-> raised, alert_id |-> alert_id]
NotSent == Sent("none", {}, {}, {}, "none", NoAlertId)

\* No alert acknowledged, no alerts listed.
NotAcked == [alert_id |-> <<>>, user |-> "none"]
NotListed == [status |-> 0, alerts |-> <<>>]

\* The alerts at the start: a new AlertManager, the clock at its first
\* second.
NoAlerts ==
    [manager |-> AlertManager, now |-> 0, sent |-> NotSent,
     acked |-> NotAcked, listing |-> NotListed]

\* api.main before startup_event: its global detector is None (constructed
\* false; detector is then no more than a placeholder).
NotStarted == [constructed |-> FALSE, detector |-> AnomalyDetector, started |-> FALSE]

\* No request to a prediction endpoint yet.
NoRequest ==
    [endpoint |-> "none", input |-> ReadingList(<<>>, 0), status |-> 0, calls |-> <<>>,
     response |-> NoBatchResponse]

\* No scoring yet.
NotScored ==
    [called |-> FALSE, model_type |-> "None", raw |-> 0, prediction |-> 0,
     raised |-> "none", response |-> NoResponse]

Init ==
    /\ detector = AnomalyDetector
    /\ settings = DefaultSettings
    /\ files = [p \in Paths |-> NoFile]
    /\ last = Call("init", "", TRUE)
    /\ initialised = FALSE
    /\ saved = [p \in Paths |-> NotSaved]
    /\ scoring = NotScored
    /\ returned = {}
    /\ request = NoRequest
    /\ alerts = NoAlerts
    /\ tasks = <<>>
    /\ app = NotStarted

\* detector.train(X, algorithm, contamination)
Train(X, algorithm, contamination, resets) ==
    LET r == train(detector, X, algorithm, contamination, resets)
    IN  /\ r.raised # "none" \/ Len(detector.training_history) < MaxHistory
        /\ detector' = r.self
        /\ last' = [Call("train", "", r.raised = "none") EXCEPT
                       !.paired_before = Paired(detector) \/ ~detector.is_ready]
        /\ initialised' = (initialised \/ r.raised = "none")
        /\ UNCHANGED <<settings, files, saved, scoring, returned, request, alerts, tasks, app>>

\* detector.load_model(path)
LoadModel(path) ==
    LET r == load_model(detector, files[path])
    IN  /\ detector' = r.self
        /\ last' = Call("load_model", path, r.ret)
        /\ initialised' = (initialised \/ r.ret)
        /\ UNCHANGED <<settings, files, saved, scoring, returned, request, alerts, tasks, app>>

\* detector.save_model(path)
SaveModel(path, outcome) ==
    LET r == save_model(detector, files[path], outcome)
    IN  /\ files' = [files EXCEPT ![path] = r.file]
        /\ last' = Call("save_model", path, r.ret)
        /\ saved' = [saved EXCEPT ![path] =
               IF outcome = "failed" THEN @
               ELSE IF r.ret /\ detector.is_ready
               THEN [valid |-> TRUE, model |-> detector.model,
                     scaler |-> detector.scaler, model_info |-> detector.model_info]
               ELSE NotSaved]
        /\ UNCHANGED <<detector, settings, initialised, scoring, returned, request, alerts, tasks, app>>

\* Variant of predict_single: the scaler is fitted further on the reading
\* it is given (partial_fit) before it transforms it.
PredictSingle_partial_fit(sensor_data) ==
    /\ last' = Call("predict_single", "",
                    predict_single(detector, settings, sensor_data).raised = "none")
    /\ detector' = [detector EXCEPT !.scaler = [fitted |-> TRUE, data |-> 2]]
    /\ UNCHANGED <<settings, files, initialised, saved, scoring, returned, request, alerts, tasks, app>>

\* await detector.predict_single(sensor_data)
PredictSingle(sensor_data) ==
    /\ last' = Call("predict_single", "",
                    predict_single(detector, settings, sensor_data).raised = "none")
    /\ UNCHANGED <<detector, settings, files, initialised, saved, scoring, returned, request, alerts, tasks, app>>

\* await detector.predict_batch(sensor_readings)
PredictBatch(sensor_readings) ==
    /\ last' = Call("predict_batch", "",
                    predict_batch(detector, settings, sensor_readings).raised = "none")
    /\ UNCHANGED <<detector, settings, files, initialised, saved, scoring, returned, request, alerts, tasks, app>>

\* detector.get_model_info()
GetModelInfo ==
    /\ last' = Call("get_model_info", "", get_model_info(detector).status = "ok")
    /\ UNCHANGED <<detector, settings, files, initialised, saved, scoring, returned, request, alerts, tasks, app>>

\* Something outside the detector writes a file into the model directory.
ExternalWrite(path, file) ==
    /\ files' = [files EXCEPT ![path] = file]
    /\ saved' = [saved EXCEPT ![path] = NotSaved]
    /\ last' = Call("external_write", path, TRUE)
    /\ UNCHANGED <<detector, settings, initialised, scoring, returned, request, alerts, tasks, app>>

\* The process is started again: the module-level detector is constructed
\* anew; the files stay.
Restart ==
    /\ detector' = AnomalyDetector
    /\ initialised' = FALSE
    /\ last' = Call("init", "", TRUE)
    /\ UNCHANGED <<settings, files, saved, scoring, returned, request, alerts, tasks, app>>

Next ==
    \/ \E call \in TrainCalls :
        \E resets \in IF call.X.kind = "empty" THEN BOOLEAN ELSE {FALSE} :
            Train(call.X, call.algorithm, call.contamination, resets)
    \/ \E path \in Paths : LoadModel(path)
    \/ \E path \in Paths, outcome \in {"written", "failed", "truncated"} :
            SaveModel(path, outcome)
    \/ \E sensor_data \in SensorReadings : PredictSingle(sensor_data)
    \/ \E sensor_readings \in Batches : PredictBatch(sensor_readings)
    \/ GetModelInfo
    \/ \E path \in Paths, file \in ForeignFiles : ExternalWrite(path, file)
    \/ Restart

Spec == Init /\ [][Next]_vars

\* ------------------------------------------------- the scoring function
\* predict_single from the estimator's outputs on: a pure function of the
\* settings, the prediction and the raw score.  Its specification draws
\* the settings the process was started with and applies the function to
\* every raw score of the table of Exp and to both overflow cases.
RawInputs == {ExpPoints[i][1] : i \in 1..Len(ExpPoints)} \cup {Huge, 0 - Huge}

FittedEstimator(model_type) ==
    [Estimator(model_type, DEFAULT_CONTAMINATION) EXCEPT !.fitted = TRUE, !.data = 1]

InitScoring ==
    /\ detector = AnomalyDetector
    /\ settings \in Settings
    /\ files = [p \in Paths |-> NoFile]
    /\ last = Call("init", "", TRUE)
    /\ initialised = FALSE
    /\ saved = [p \in Paths |-> NotSaved]
    /\ scoring = NotScored
    /\ returned = {}
    /\ request = NoRequest
    /\ alerts = NoAlerts
    /\ tasks = <<>>
    /\ app = NotStarted

Score(model_type, prediction, raw) ==
    LET r == to_response(FittedEstimator(model_type), settings, 1, prediction, raw)
    IN  /\ scoring' = [called |-> TRUE, model_type |-> model_type, raw |-> raw,
                       prediction |-> prediction, raised |-> r.raised,
                       response |-> r.response]
        /\ UNCHANGED <<detector, settings, files, last, initialised, saved, returned, request, alerts, tasks, app>>

NextScoring ==
    \E model_type \in Algorithms, prediction \in {-1, 1}, raw \in RawInputs :
        Score(model_type, prediction, raw)

SpecScoring == InitScoring /\ [][NextScoring]_vars


\* ------------------------------------------------------- POST /predict
\* The native decision of the estimator for a reading the detector scores.
native_prediction(self, sensor_data) ==
    predict(self.model,
            transform(self.scaler, <<sensor_data.temperature, sensor_data.pressure,
                                     sensor_data.humidity, sensor_data.vibration>>))

\* The reading that each of the readings not written out holds.
FillerReading ==
    [sensor_id |-> 0, temperature |-> 20, pressure |-> 1013, humidity |-> 50, vibration |-> 0]

\* endpoints.predict_anomaly, on the SensorData FastAPI built from the
\* body: the reading is scored by the detector and the PredictionResponse
\* returned; any exception, the 503 of a detector that is not ready
\* included, is answered with status 500.  calls lists what the detector
\* was handed.
predict_anomaly(self, settings_, data) ==
    IF ~self.is_ready
    THEN [status |-> 500, response |-> NoResponse, calls |-> <<>>]
    ELSE LET r == predict_single(self, settings_, data)
         IN  [status |-> IF r.raised = "none" THEN 200 ELSE 500,
              response |-> r.response,
              calls |-> <<ReadingList(<<data>>, 0)>>]

\* POST /predict as its clients see it.  returned keeps, of every answered
\* prediction, the estimator's decision with the is_anomaly and the
\* severity of the response.
PredictAnomaly(data) ==
    LET r == predict_anomaly(detector, settings, data)
        answered == SensorData(data).raised = "none" /\ r.status = 200
    IN  /\ last' = Call("predict_anomaly", "", answered)
        /\ returned' =
              IF answered
              THEN returned \cup {[prediction |-> native_prediction(detector, data),
                                   is_anomaly |-> r.response.is_anomaly,
                                   severity |-> r.response.severity]}
              ELSE returned
        /\ UNCHANGED <<detector, settings, files, initialised, saved, scoring, request, alerts, tasks, app>>

NextPredict ==
    \/ \E call \in TrainCalls :
        \E resets \in IF call.X.kind = "empty" THEN BOOLEAN ELSE {FALSE} :
            Train(call.X, call.algorithm, call.contamination, resets)
    \/ \E data \in SensorReadings : PredictAnomaly(data)
    \/ Restart

SpecPredict == Init /\ [][NextPredict]_vars

\* ------------------------------------------- the prediction endpoints
\* predict_batch_anomalies: the readings go to the detector batch_size at
\* a time.
batch_size == 100

\* data.readings[i:i + batch_size] for the k-th value of i.
Chunk(readings, k) ==
    LET first == batch_size * (k - 1)
        size == Min2(batch_size, Length(readings) - first)
        head == IF first < Len(readings.head)
                THEN SubSeq(readings.head, first + 1, Min2(Len(readings.head), first + size))
                ELSE <<>>
    IN  ReadingList(head, size - Len(head))

\* range(0, len(data.readings), batch_size)
NChunks(readings) == (Length(readings) + batch_size - 1) \div batch_size

\* detector.predict_batch(batch) raises: it does when predict_single raises
\* for one of the readings, and the readings not written out are alike.
batch_raises(self, settings_, batch) ==
    predict_batch(self, settings_,
        batch.head \o (IF batch.extra > 0 THEN <<FillerReading>> ELSE <<>>)).raised # "none"

\* Variant of all_predictions.extend: the predictions of a batch are put
\* in front of those of the batches before it.
extend_in_front(all, batch_predictions) == batch_predictions \o all

\* all_predictions.extend(batch_predictions)
extend(all, batch_predictions) == all \o batch_predictions

\* predict_batch_anomalies, all_predictions after the k-th batch: of the
\* readings that are written out.
RECURSIVE all_predictions(_, _, _, _)
all_predictions(self, settings_, data, k) ==
    IF k = 0 THEN <<>>
    ELSE extend(all_predictions(self, settings_, data, k - 1),
                predict_batch(self, settings_, Chunk(data, k).head).predictions)

RECURSIVE SumOfScores(_)
SumOfScores(predictions) ==
    IF predictions = <<>> THEN 0
    ELSE predictions[1].anomaly_score + SumOfScores(Tail(predictions))

\* predict_batch_anomalies, "Calculate summary" and the response: all are
\* the predictions written out, followed by extra predictions like filler.
BatchPredictionResponse(all, extra, filler) ==
    LET total == Len(all) + extra
        anomaly_count ==
            Cardinality({i \in 1..Len(all) : all[i].is_anomaly})
                + (IF filler.is_anomaly THEN extra ELSE 0)
        critical ==
            Cardinality({i \in 1..Len(all) : all[i].severity = "critical"})
                + (IF filler.severity = "critical" THEN extra ELSE 0)
        scores == SumOfScores(all) + extra * filler.anomaly_score
    IN  [predictions |-> [head |-> all, extra |-> extra, filler |-> filler],
         summary |-> [total_readings |-> total,
                      anomalies_detected |-> anomaly_count,
                      anomaly_rate |-> DivRound(anomaly_count * Unit, total),
                      average_anomaly_score |-> DivRound(scores, total),
                      critical_anomalies |-> critical]]

\* endpoints.predict_batch_anomalies, on the BatchSensorData it is given:
\* the status answered, the batches the detector was handed and the
\* response.
predict_batch_anomalies(self, settings_, data) ==
    LET failing == {k \in 1..NChunks(data) : batch_raises(self, settings_, Chunk(data, k))}
        stop == IF failing = {} THEN NChunks(data)
                ELSE CHOOSE k \in failing : \A j \in failing : k <= j
        filler == IF data.extra > 0
                  THEN predict_single(self, settings_, FillerReading).response
                  ELSE NoResponse
    IN  IF ~self.is_ready
        THEN [status |-> 500, calls |-> <<>>, response |-> NoBatchResponse]
        ELSE IF failing = {} /\ Length(data) > 0
        THEN [status |-> 200,
              calls |-> [k \in 1..stop |-> Chunk(data, k)],
              response |-> BatchPredictionResponse(
                               all_predictions(self, settings_, data, NChunks(data)),
                               data.extra, filler)]
        ELSE [status |-> 500,
              calls |-> [k \in 1..stop |-> Chunk(data, k)],
              response |-> NoBatchResponse]

\* endpoints.predict_from_file, on the uploaded file: a file without
\* content is answered 400; missing columns, a row that is no SensorData, a
\* list that is no BatchSensorData and a failed prediction are answered 500.
predict_from_file(self, settings_, file) ==
    LET batch_data == BatchSensorData(file.rows)
    IN  IF file.kind = "empty" THEN [status |-> 400, calls |-> <<>>]
        ELSE IF file.kind = "missing_columns" THEN [status |-> 500, calls |-> <<>>]
        ELSE IF batch_data.raised # "none" THEN [status |-> 500, calls |-> <<>>]
        ELSE predict_batch_anomalies(self, settings_, batch_data.readings)

\* The bodies sent to POST /predict: the readings of SensorReadings, one
\* with every field on a limit of its range, and one per field that is out
\* of range.
ApiReadings ==
    SensorReadings \cup
    {[sensor_id |-> 5, temperature |-> 101, pressure |-> 1013, humidity |-> 50, vibration |-> 0],
     [sensor_id |-> 6, temperature |-> 20, pressure |-> 899, humidity |-> 50, vibration |-> 0],
     [sensor_id |-> 7, temperature |-> 20, pressure |-> 1013, humidity |-> 101, vibration |-> 0],
     [sensor_id |-> 8, temperature |-> 20, pressure |-> 1013, humidity |-> 50, vibration |-> 11],
     [sensor_id |-> 9, temperature |-> -50, pressure |-> 1100, humidity |-> 0, vibration |-> 10]}

\* A list of valid readings longer than one batch, all written out.
LongList ==
    ReadingList([i \in 1..(batch_size + 2) |->
                    IF i = 2 THEN [sensor_id |-> 2, temperature |-> 45, pressure |-> 1003,
                                   humidity |-> 50, vibration |-> 2]
                    ELSE [FillerReading EXCEPT !.sensor_id = 100 + i]], 0)

\* The lists sent to POST /predict/batch and uploaded as files: no, one or
\* two readings written out (valid or not, sensor_ids repeated or not),
\* followed by none, 999 or 1000 more.
ApiLists ==
    LET reading(id) == CHOOSE sd \in ApiReadings : sd.sensor_id = id
    IN  {ReadingList(head, extra) :
            head \in {<<>>, <<reading(1)>>, <<reading(8)>>,
                      <<reading(1), reading(2)>>, <<reading(1), reading(1)>>,
                      <<reading(2), reading(8)>>},
            extra \in {0, 999, 1000}}

ApiFiles ==
    {[kind |-> "csv", rows |-> rows] : rows \in ApiLists}
        \cup {[kind |-> kind, rows |-> ReadingList(<<>>, 0)] : kind \in {"empty", "missing_columns"}}

Request(endpoint, input, status, calls) ==
    [endpoint |-> endpoint, input |-> input, status |-> status, calls |-> calls,
     response |-> NoBatchResponse]

\* POST /predict: FastAPI builds the SensorData from the body (422 when it
\* cannot) and calls predict_anomaly.
PostPredict(body) ==
    LET r == predict_anomaly(detector, settings, body)
        input == ReadingList(<<body>>, 0)
    IN  /\ request' =
              IF SensorData(body).raised # "none"
              THEN Request("/predict", input, 422, <<>>)
              ELSE Request("/predict", input, r.status, r.calls)
        /\ last' = Call("predict_anomaly", "", request'.status = 200)
        /\ UNCHANGED <<detector, settings, files, initialised, saved, scoring, returned, alerts, tasks, app>>

\* POST /predict/batch: FastAPI builds the BatchSensorData from the body
\* (422 when it cannot) and calls predict_batch_anomalies.
PostPredictBatch(body) ==
    LET data == BatchSensorData(body)
        r == predict_batch_anomalies(detector, settings, data.readings)
    IN  /\ request' =
              IF data.raised # "none"
              THEN Request("/predict/batch", body, 422, <<>>)
              ELSE [Request("/predict/batch", body, r.status, r.calls) EXCEPT
                        !.response = r.response]
        /\ last' = Call("predict_batch_anomalies", "", request'.status = 200)
        /\ UNCHANGED <<detector, settings, files, initialised, saved, scoring, returned, alerts, tasks, app>>

\* POST /predict/upload
PostPredictUpload(file) ==
    LET r == predict_from_file(detector, settings, file)
    IN  /\ request' = Request("/predict/upload", file.rows, r.status, r.calls)
        /\ last' = Call("predict_from_file", file.kind, r.status = 200)
        /\ UNCHANGED <<detector, settings, files, initialised, saved, scoring, returned, alerts, tasks, app>>

\* endpoints.get_model_info (GET /model): the 503 of a detector that is not
\* ready is raised inside the try and answered 500 by its except; so is
\* the ValidationError of ModelInfo(**info) on a model_info without keys.
router_get_model_info(self) ==
    IF ~self.is_ready
    THEN [status |-> 500, info |-> NoInfo]
    ELSE IF get_model_info(self).info = NoInfo
    THEN [status |-> 500, info |-> NoInfo]
    ELSE [status |-> 200, info |-> get_model_info(self).info]

\* GET /model
GetModel ==
    LET r == router_get_model_info(detector)
    IN  /\ request' = Request("/model", ReadingList(<<>>, 0), r.status, <<>>)
        /\ last' = Call("get_model_info", "/model", r.status = 200)
        /\ UNCHANGED <<detector, settings, files, initialised, saved, scoring, returned, alerts, tasks, app>>

\* main.websocket_endpoint, one round of its loop: the mock reading has
\* neither humidity nor vibration, so SensorData(**mock_data) raises
\* before the detector is called.
WebsocketRound ==
    /\ request' = Request("/ws", ReadingList(<<>>, 0), 0, <<>>)
    /\ last' = Call("websocket_endpoint", "", FALSE)
    /\ UNCHANGED <<detector, settings, files, initialised, saved, scoring, returned, alerts, tasks, app>>

NextApi ==
    \/ \E call \in {c \in TrainCalls : c.algorithm = "isolation_forest"} :
        \E resets \in IF call.X.kind = "empty" THEN BOOLEAN ELSE {FALSE} :
            Train(call.X, call.algorithm, call.contamination, resets)
    \/ Restart
    \/ \E body \in ApiReadings : PostPredict(body)
    \/ \E body \in ApiLists : PostPredictBatch(body)
    \/ \E file \in ApiFiles : PostPredictUpload(file)
    \/ GetModel
    \/ WebsocketRound

SpecApi == Init /\ [][NextApi]_vars

\* The batches of valid readings sent to POST /predict/batch: one, two or
\* three readings written out, followed by none or by as many as fill one
\* batch, two batches or the whole list; and the long list.
BatchLists ==
    LET reading(id) == CHOOSE sd \in ApiReadings : sd.sensor_id = id
    IN  {ReadingList(head, extra) :
            head \in {<<reading(1)>>, <<reading(1), reading(2)>>,
                      <<reading(4), reading(2), reading(1)>>},
            extra \in {0, batch_size - 1, 2 * batch_size - 1, max_items - 1}}
        \cup {LongList}

NextBatch ==
    \/ \E call \in {c \in TrainCalls : c.X = TrainingSet(2, "ok") /\ c.algorithm \in Algorithms} :
            Train(call.X, call.algorithm, call.contamination, FALSE)
    \/ Restart
    \/ \E body \in BatchLists : PostPredictBatch(body)

SpecBatch == Init /\ [][NextBatch]_vars

\* -------------------------------------------------- sending of alerts
\* What an alert is sent about.
AnomalyData == [sensor_id |-> 1, anomaly_score |-> 850]

Others == <<detector, settings, files, initialised, saved, scoring, returned, request, tasks, app>>

\* manager.send_alert(anomaly_data, severity)
SendAlert(severity, failing) ==
    LET r == send_alert(alerts.manager, AnomalyData, severity, alerts.now, failing)
        enabled == {sink \in Sinks : alerts.manager.config[sink]}
    IN  /\ Len(alerts.manager.alert_history) < MaxAlerts
        /\ alerts' = [alerts EXCEPT
              !.manager = r.self,
              !.sent = Sent("AlertManager", enabled, failing, r.attempted,
                            r.raised, r.alert_id)]
        /\ last' = Call("send_alert", severity, r.raised = "none")
        /\ UNCHANGED Others

\* manager.config[sink]["enabled"] = enabled: the configuration is a dict
\* of the instance, which its owner may change.
SetEnabled(sink, enabled) ==
    /\ alerts.manager.config[sink] # enabled
    /\ alerts' = [alerts EXCEPT !.manager.config[sink] = enabled]
    /\ last' = Call("config", sink, TRUE)
    /\ UNCHANGED Others

\* AlertSystem(config).send_email_alert(anomaly_data)
NotifyEmail(fails) ==
    LET raised == notifier_send_email_alert(AnomalyData, fails)
    IN  /\ alerts' = [alerts EXCEPT
              !.sent = Sent("AlertSystem", {"email"}, IF fails THEN {"email"} ELSE {},
                            {"email"}, raised, NoAlertId)]
        /\ last' = Call("send_email_alert", "", raised = "none")
        /\ UNCHANGED Others

\* AlertSystem(config).send_slack_alert(anomaly_data)
NotifySlack(fails) ==
    LET raised == notifier_send_slack_alert(AnomalyData, fails)
    IN  /\ alerts' = [alerts EXCEPT
              !.sent = Sent("AlertSystem", {"slack"}, IF fails THEN {"slack"} ELSE {},
                            {"slack"}, raised, NoAlertId)]
        /\ last' = Call("send_slack_alert", "", raised = "none")
        /\ UNCHANGED Others

\* A second passes.
Tick ==
    /\ alerts.now < MaxClock
    /\ alerts' = [alerts EXCEPT !.now = @ + 1]
    /\ UNCHANGED <<last, detector, settings, files, initialised, saved, scoring, returned, request, tasks, app>>

NextAlerts ==
    \/ \E severity \in {"warning", "critical"}, failing \in SUBSET Sinks :
            SendAlert(severity, failing)
    \/ \E sink \in Sinks, enabled \in BOOLEAN : SetEnabled(sink, enabled)
    \/ \E fails \in BOOLEAN : NotifyEmail(fails)
    \/ \E fails \in BOOLEAN : NotifySlack(fails)
    \/ Tick

SpecAlerts == Init /\ [][NextAlerts]_vars

\* ------------------------------------------------ the alert endpoints
\* No time, no sensor_id (None).
NoTime == 0 - Huge
NoSensor == 0 - 1

\* get_recent_alerts, the i-th alert of its loop, made up at the second
\* now: ten minutes older per i, its alert_id the time to the second and i.
MockAlert(i, now) ==
    [alert_id |-> <<now - 600 * i, i>>,
     timestamp |-> now - 600 * i,
     sensor_id |-> i % 10,
     severity |-> IF i % 5 = 0 THEN "critical" ELSE "warning",
     anomaly_score |-> 700 + ((10 * i) % 300),
     acknowledged |-> (i % 3 = 0),
     acknowledged_by |-> IF i % 3 = 0 THEN "admin" ELSE "None",
     acknowledged_at |-> IF i % 3 = 0 THEN now - 600 * i + 300 ELSE NoTime]

\* alerts.sort(key=lambda x: x.timestamp, reverse=True): the stable sort,
\* newest first.
RECURSIVE SortNewestFirst(_)
SortNewestFirst(list) ==
    IF list = <<>> THEN <<>>
    ELSE LET first == CHOOSE k \in 1..Len(list) :
                        /\ \A j \in 1..Len(list) : list[j].timestamp <= list[k].timestamp
                        /\ \A j \in 1..(k - 1) : list[j].timestamp < list[k].timestamp
         IN  <<list[first]>> \o
             SortNewestFirst(SubSeq(list, 1, first - 1) \o SubSeq(list, first + 1, Len(list)))

\* endpoints.get_recent_alerts at the second now.  The alerts are made up
\* anew by every call; the SensorData of one is drawn at random and is out
\* of range now and then (mock_valid false), which is answered 500.
get_recent_alerts(hours, severity, sensor_id, now, mock_valid) ==
    LET made == [k \in 1..Min2(50, hours * 6) |-> MockAlert(k - 1, now)]
        by_severity == IF severity = "None" THEN made
                       ELSE SelectSeq(made, LAMBDA a : a.severity = severity)
        by_sensor == IF sensor_id = NoSensor THEN by_severity
                     ELSE SelectSeq(by_severity, LAMBDA a : a.sensor_id = sensor_id)
        sorted == SortNewestFirst(by_sensor)
    IN  IF ~mock_valid THEN [status |-> 500, alerts |-> <<>>]
        ELSE [status |-> 200, alerts |-> SubSeq(sorted, 1, Min2(100, Len(sorted)))]

\* endpoints.acknowledge_alert: answers success; nothing is looked up and
\* nothing is stored.
acknowledge_alert(alert_id, user, now) ==
    [success |-> TRUE, acknowledged_at |-> now]

\* GET /alerts
GetRecentAlerts(hours, severity, sensor_id, mock_valid) ==
    /\ alerts' = [alerts EXCEPT
          !.listing = get_recent_alerts(hours, severity, sensor_id, alerts.now, mock_valid)]
    /\ last' = Call("get_recent_alerts", severity, mock_valid)
    /\ UNCHANGED Others

\* POST /alerts/{alert_id}/acknowledge.  acked keeps the last alert that
\* was reported acknowledged and by whom; listing starts anew, so that it
\* holds only what was listed after the acknowledgment.
AcknowledgeAlert(alert_id, user) ==
    LET r == acknowledge_alert(alert_id, user, alerts.now)
    IN  /\ alerts' = [alerts EXCEPT
              !.acked = IF r.success THEN [alert_id |-> alert_id, user |-> user] ELSE @,
              !.listing = NotListed]
        /\ last' = Call("acknowledge_alert", user, r.success)
        /\ UNCHANGED Others

NextAlertsApi ==
    \/ \E hours \in {1, 9}, severity \in {"None", "critical", "warning"},
          sensor_id \in {NoSensor, 1}, mock_valid \in BOOLEAN :
            GetRecentAlerts(hours, severity, sensor_id, mock_valid)
    \/ \E i \in 0..1, user \in {"bob"} :
            AcknowledgeAlert(<<alerts.now - 600 * i, i>>, user)
    \/ AcknowledgeAlert(<<0, 99>>, "bob")
    \/ Tick

SpecAlertsApi == Init /\ [][NextAlertsApi]_vars

\* ------------------------------------------------ POST /model/train
\* TrainingRequest: the bounds of n_samples and of contamination.
n_samples_le == 10000
contamination_ge == 10
contamination_le == 300
\* TrainingRequest.validate_algorithm: valid_algorithms.
valid_algorithms == {"isolation_forest", "one_class_svm", "lof"}

\* TrainingRequest(**fields): the Field bounds and the validator.
TrainingRequest(fields) ==
    IF /\ fields.n_samples >= n_samples_ge
       /\ fields.n_samples <= n_samples_le
       /\ fields.contamination >= contamination_ge
       /\ fields.contamination <= contamination_le
       /\ fields.algorithm \in valid_algorithms
    THEN [raised |-> "none", request |-> fields]
    ELSE [raised |-> "ValidationError", request |-> fields]

\* data_generator.generate_training_data: n_samples rows of finite
\* numbers, the same at every call with the same arguments (the seed is
\* fixed); the share of anomalous rows sets the spread of the features.
generate_training_data(n_samples, anomaly_rate) ==
    [id |-> IF anomaly_rate <= DEFAULT_CONTAMINATION THEN 1 ELSE 2,
     kind |-> "ok",
     rows |-> n_samples]

\* Variant of train_new_model: the model is trained with the defaults of
\* train instead of the algorithm and the contamination asked for.
train_new_model_with_defaults(self, old_file, n_samples, contamination, algorithm, resets, outcome) ==
    LET X_train == generate_training_data(n_samples, contamination)
        trained == train(self, X_train, "isolation_forest", DEFAULT_CONTAMINATION, resets)
        written == save_model(trained.self, old_file, outcome)
    IN  IF trained.raised # "none"
        THEN [raised |-> trained.raised, self |-> trained.self, file |-> old_file, saved |-> FALSE]
        ELSE [raised |-> "none", self |-> trained.self, file |-> written.file, saved |-> written.ret]

\* AnomalyDetector.train_new_model: the data is generated, the model is
\* trained on it and saved to settings.MODEL_PATH.  The coroutine never
\* awaits, so that nothing else runs on the event loop in between.
train_new_model(self, old_file, n_samples, contamination, algorithm, resets, outcome) ==
    LET X_train == generate_training_data(n_samples, contamination)
        trained == train(self, X_train, algorithm, contamination, resets)
        written == save_model(trained.self, old_file, outcome)
    IN  IF trained.raised # "none"
        THEN [raised |-> trained.raised, self |-> trained.self, file |-> old_file, saved |-> FALSE]
        ELSE [raised |-> "none", self |-> trained.self, file |-> written.file, saved |-> written.ret]

\* The bodies POST /model/train is sent: three a TrainingRequest accepts,
\* one for each algorithm and at the bounds of the fields, and three it
\* rejects.
TrainingBody(n_samples, contamination, algorithm) ==
    [n_samples |-> n_samples, contamination |-> contamination, algorithm |-> algorithm]
TrainingBodies ==
    {TrainingBody(1000, DEFAULT_CONTAMINATION, "isolation_forest"),
     TrainingBody(n_samples_le, contamination_le, "one_class_svm"),
     TrainingBody(n_samples_ge, contamination_ge, "lof"),
     TrainingBody(n_samples_ge - 1, DEFAULT_CONTAMINATION, "isolation_forest"),
     TrainingBody(1000, contamination_le + 1, "isolation_forest"),
     TrainingBody(1000, DEFAULT_CONTAMINATION, "random_forest")}

\* POST /model/train: FastAPI builds the TrainingRequest from the body (422
\* when it cannot); train_model adds the training to the background tasks
\* and answers.  The detector is not touched.
PostModelTrain(body) ==
    LET r == TrainingRequest(body)
    IN  /\ Len(detector.training_history) + Len(tasks) < MaxTasks
        /\ tasks' = IF r.raised = "none" THEN Append(tasks, r.request) ELSE tasks
        /\ last' = Call("train_model", body, r.raised = "none")
        /\ UNCHANGED <<detector, settings, files, initialised, saved, scoring, returned,
                       request, alerts, app>>

\* A background task runs: the i-th of those waiting (the tasks of
\* different requests run in no fixed order).
RunTask(i, resets, outcome) ==
    /\ i \in 1..Len(tasks)
    /\ LET task == tasks[i]
           path == CHOOSE p \in Paths : TRUE
           r == train_new_model(detector, files[path], task.n_samples,
                                task.contamination, task.algorithm, resets, outcome)
       IN  /\ detector' = r.self
           /\ files' = [files EXCEPT ![path] = r.file]
           /\ saved' = [saved EXCEPT ![path] =
                  IF r.raised # "none" \/ outcome = "failed" THEN @
                  ELSE IF r.saved
                  THEN [valid |-> TRUE, model |-> r.self.model,
                        scaler |-> r.self.scaler, model_info |-> r.self.model_info]
                  ELSE NotSaved]
           /\ initialised' = (initialised \/ r.raised = "none")
           /\ last' = Call("train_new_model", task, r.raised = "none")
    /\ tasks' = SubSeq(tasks, 1, i - 1) \o SubSeq(tasks, i + 1, Len(tasks))
    /\ UNCHANGED <<settings, scoring, returned, request, alerts, app>>

\* The next background task runs.
RunNextTask == \E resets \in BOOLEAN, outcome \in {"written", "failed", "truncated"} :
                   RunTask(1, resets, outcome)

NextTraining ==
    \/ \E body \in TrainingBodies : PostModelTrain(body)
    \/ RunNextTask
    \/ \E i \in 2..MaxTasks, resets \in BOOLEAN, outcome \in {"written", "failed", "truncated"} :
           RunTask(i, resets, outcome)
    \/ GetModelInfo

\* The event loop runs every task that waits: the oldest of them does not
\* wait for ever.
SpecTraining == Init /\ [][NextTraining]_vars /\ WF_vars(RunNextTask)

\* ------------------------------------------------ api/main.py
\* main.startup_event on the file at settings.MODEL_PATH: a file that
\* exists is loaded and the value load_model returns is not looked at; with
\* no file a model is trained on generated data with the defaults of train
\* and saved.  An exception is raised again and the application does not
\* start.
startup_event(old_file, resets, outcome) ==
    LET loaded == load_model(AnomalyDetector, old_file)
        X_train == generate_training_data(1000, DEFAULT_CONTAMINATION)
        trained == train(AnomalyDetector, X_train, "isolation_forest",
                         DEFAULT_CONTAMINATION, resets)
        written == save_model(trained.self, old_file, outcome)
    IN  IF old_file # NoFile
        THEN [raised |-> "none", detector |-> loaded.self, file |-> old_file,
              saved |-> FALSE, written |-> FALSE]
        ELSE IF trained.raised # "none"
        THEN [raised |-> trained.raised, detector |-> trained.self, file |-> old_file,
              saved |-> FALSE, written |-> FALSE]
        ELSE [raised |-> "none", detector |-> trained.self, file |-> written.file,
              saved |-> written.ret, written |-> outcome # "failed"]

\* main.health_check: model_status, from the detector of api.main.
health_check(app_) ==
    IF app_.constructed /\ app_.detector.is_ready THEN "healthy" ELSE "unhealthy"

\* The process starts: the modules are imported, which constructs
\* core.anomaly_detector.detector, the detector of the router, anew, and
\* startup_event constructs and initialises the detector of api.main.
StartupEvent(resets, outcome) ==
    LET path == CHOOSE p \in Paths : TRUE
        r == startup_event(files[path], resets, outcome)
    IN  /\ detector' = AnomalyDetector
        /\ initialised' = FALSE
        /\ tasks' = <<>>
        /\ app' = [constructed |-> TRUE, detector |-> r.detector,
                   started |-> (r.raised = "none")]
        /\ files' = [files EXCEPT ![path] = r.file]
        /\ saved' = [saved EXCEPT ![path] =
               IF ~r.written THEN @
               ELSE IF r.saved
               THEN [valid |-> TRUE, model |-> r.detector.model,
                     scaler |-> r.detector.scaler, model_info |-> r.detector.model_info]
               ELSE NotSaved]
        /\ last' = Call("startup_event", "", r.raised = "none")
        /\ UNCHANGED <<settings, scoring, returned, request, alerts>>

\* GET /health
HealthCheck ==
    /\ request' = Request("/health", ReadingList(<<>>, 0), 200, <<>>)
    /\ last' = Call("health_check", health_check(app), TRUE)
    /\ UNCHANGED <<detector, settings, files, initialised, saved, scoring, returned,
                   alerts, tasks, app>>

\* The application serves requests once startup_event has completed.
NextStartup ==
    \/ \E path \in Paths, file \in ForeignFiles \cup {NoFile} : ExternalWrite(path, file)
    \/ \E resets \in BOOLEAN, outcome \in {"written", "failed", "truncated"} :
           StartupEvent(resets, outcome)
    \/ app.started /\ HealthCheck
    \/ app.started /\ \E body \in {sd \in SensorReadings : sd.sensor_id = 1} : PostPredict(body)
    \/ app.started /\ GetModel
    \/ app.started /\ PostModelTrain(TrainingBody(1000, DEFAULT_CONTAMINATION, "isolation_forest"))
    \/ app.started /\ RunNextTask

SpecStartup == Init /\ [][NextStartup]_vars

\* ================================================================ claims
ValidReadings == {sd \in SensorReadings : sd.temperature # NaN}

\* C1: on a detector on which no train and no load_model has succeeded,
\* predict_single raises the not-ready error for every reading and builds
\* no PredictionResponse.
C1_PredictBeforeTrainOrLoadIsNotReady ==
    ~initialised =>
        \A sd \in SensorReadings :
            predict_single(detector, settings, sd) = Raise("ValueError: Model not trained")

\* C1, its case: a predict_single has just failed on a detector that was
\* never initialised although a train was attempted on it (it left the
\* scaler fitted).
C1_Witness ==
    /\ last.op = "predict_single"
    /\ ~last.ok
    /\ ~initialised
    /\ detector.scaler.fitted

\* C2: a train that raises leaves the detector exactly as it was (scaler,
\* model, model_info, is_ready, training_history), so every predict_single
\* gives after it what it gave before it.
C2_FailedTrainLeavesDetectorUntouched ==
    [][(last'.op = "train" /\ ~last'.ok) =>
          /\ detector' = detector
          /\ \A sd \in SensorReadings :
                predict_single(detector', settings, sd) = predict_single(detector, settings, sd)]_vars

\* C3: a predict_single that runs after a train was started on a detector
\* whose scaler and model belonged together reads a scaler and a model that
\* belong together (both of before the train or both of after it, the
\* model fitted), and completes on every valid reading.
C3_PredictReadsMatchingPair ==
    [][(last.op = "train" /\ last.paired_before /\ detector.is_ready
            /\ last'.op = "predict_single") =>
          /\ Paired(detector)
          /\ \A sd \in ValidReadings :
                predict_single(detector, settings, sd).raised = "none"]_vars

Rank(severity) ==
    CASE severity = "critical" -> 2 [] severity = "warning" -> 1 [] OTHER -> 0

\* C4: with the default thresholds the severity of a PredictionResponse is
\* critical exactly when anomaly_score > 0.8, warning exactly when
\* 0.6 < anomaly_score <= 0.8 and info otherwise, and a response with a
\* higher score never has a lower severity.
C4_SeverityBandsWithDefaultThresholds ==
    (settings = DefaultSettings /\ scoring.called /\ scoring.raised = "none") =>
        LET score == scoring.response.anomaly_score
            severity == scoring.response.severity
        IN  /\ severity \in {"critical", "warning", "info"}
            /\ severity = "critical" <=> score > 800
            /\ severity = "warning" <=> (600 < score /\ score <= 800)
            /\ severity = "info" <=> score <= 600
            /\ \A raw \in RawInputs :
                  LET other == to_response(FittedEstimator(scoring.model_type),
                                           settings, 1, scoring.prediction, raw)
                  IN  (other.raised = "none" /\ other.response.anomaly_score >= score)
                          => Rank(other.response.severity) >= Rank(severity)

\* C4, its case: under the default thresholds a score of exactly 0.8 was
\* classified, and it is a warning.
C4_Witness ==
    /\ settings = DefaultSettings
    /\ scoring.called
    /\ scoring.raised = "none"
    /\ scoring.response.anomaly_score = 800
    /\ scoring.response.severity = "warning"

\* C5: for every configured pair of thresholds with critical > warning the
\* severity of a PredictionResponse is critical exactly when anomaly_score
\* exceeds the configured critical threshold, warning exactly when it
\* exceeds only the configured warning threshold, and info otherwise.
C5_SeverityFollowsConfiguredThresholds ==
    (scoring.called /\ scoring.raised = "none"
        /\ settings.ALERT_THRESHOLD_CRITICAL > settings.ALERT_THRESHOLD_WARNING) =>
        LET score == scoring.response.anomaly_score
            severity == scoring.response.severity
        IN  /\ severity = "critical" <=> score > settings.ALERT_THRESHOLD_CRITICAL
            /\ severity = "warning" <=>
                  (settings.ALERT_THRESHOLD_WARNING < score
                      /\ score <= settings.ALERT_THRESHOLD_CRITICAL)
            /\ severity = "info" <=> score <= settings.ALERT_THRESHOLD_WARNING

\* C6: for every raw score of the estimator a PredictionResponse is
\* returned, its anomaly_score lies in [0, 1], its confidence is
\* min(1.5 * anomaly_score, 1.0), which lies in [0, 1] and is not below the
\* anomaly_score.
C6_ScoreAndConfidenceInUnitInterval ==
    scoring.called =>
        LET score == scoring.response.anomaly_score
            confidence == scoring.response.confidence
        IN  /\ scoring.raised = "none"
            /\ 0 <= score /\ score <= Unit
            /\ confidence = IF 3 * score >= 2 * Unit THEN Unit ELSE DivRound(3 * score, 2)
            /\ 0 <= confidence /\ confidence <= Unit
            /\ confidence >= score

\* C6, its case: a raw score whose 1.5-fold anomaly score exceeds 1 was
\* scored, and the confidence is capped at 1.0.
C6_Witness ==
    /\ scoring.called
    /\ scoring.raised = "none"
    /\ 3 * scoring.response.anomaly_score > 2 * Unit
    /\ scoring.response.anomaly_score < Unit
    /\ scoring.response.confidence = Unit

\* C7: on a ready detector, when exactly one reading of a batch fails to
\* score, predict_batch does not fail as a whole: it reports the N-1 other
\* readings, each with the PredictionResponse predict_single gives for it
\* alone.
C7_BatchFailsPerItemOnly ==
    (last.op = "predict_batch" /\ detector.is_ready /\ Paired(detector)) =>
        \A b \in Batches :
            LET alone(i) == predict_single(detector, settings, b[i])
                failing == {i \in 1..Len(b) : alone(i).raised # "none"}
                whole == predict_batch(detector, settings, b)
            IN  Cardinality(failing) = 1 =>
                    /\ whole.raised = "none"
                    /\ \A i \in (1..Len(b)) \ failing :
                          \E k \in 1..Len(whole.predictions) :
                              whole.predictions[k] = alone(i).response

Partial(file) ==
    /\ file.kind = "dict"
    /\ ~(file.has_model /\ file.has_scaler /\ file.has_info)

\* C8: a load_model of a bundle that lacks one of its parts fails, and
\* leaves the detector (model, scaler, model_info, is_ready) as it was.
C8_PartialBundleLoadFailsCleanly ==
    [][\A path \in Paths :
          (last'.op = "load_model" /\ last'.arg = path /\ Partial(files[path])) =>
              /\ ~last'.ok
              /\ detector' = detector]_vars

SavedDetector(path) ==
    [AnomalyDetector EXCEPT
        !.model = saved[path].model,
        !.scaler = saved[path].scaler,
        !.model_info = saved[path].model_info,
        !.is_ready = TRUE]

\* C9: a load_model of the bundle that save_model wrote from a ready
\* detector succeeds and makes the model, the scaler and model_info those
\* that were saved, so that every predict_single gives what it gave when
\* the bundle was saved.
C9_SaveLoadRoundTrip ==
    [][\A path \in Paths :
          (last'.op = "load_model" /\ last'.arg = path /\ saved[path].valid) =>
              /\ last'.ok
              /\ detector'.is_ready
              /\ detector'.model = saved[path].model
              /\ detector'.scaler = saved[path].scaler
              /\ detector'.model_info = saved[path].model_info
              /\ \A sd \in SensorReadings :
                    predict_single(detector', settings, sd)
                        = predict_single(SavedDetector(path), settings, sd)]_vars

\* C9, its case: the bundle of a trained detector was loaded into a
\* detector constructed afterwards, which now scores readings.
C9_Witness ==
    /\ last.op = "load_model"
    /\ last.ok
    /\ saved[last.arg].valid
    /\ saved[last.arg].model.fitted
    /\ detector.training_history = <<>>
    /\ detector.model = saved[last.arg].model
    /\ \E sd \in SensorReadings : predict_single(detector, settings, sd).raised = "none"

\* C10: no call of train, load_model, save_model, predict_single,
\* predict_batch or get_model_info, failed or not, makes a ready detector
\* not ready; only the construction of a new detector does.
C10_ReadyStaysReady ==
    [][(detector.is_ready /\ last'.op # "init") => detector'.is_ready]_vars

\* C10, its case: a train has just failed on a detector that was ready, and
\* the detector is ready still.
C10_Witness ==
    /\ last.op = "train"
    /\ ~last.ok
    /\ detector.is_ready

\* C11: after any sequence of train, load_model and save_model calls,
\* failed or not, the scaler and the model the detector holds belong
\* together: either there is neither a model nor a fitted scaler, or both
\* are fitted and come from the same training set or the same bundle.
C11_ScalerAndModelOfOneGeneration ==
    (detector.model.kind = "estimator" \/ detector.scaler.fitted) => Paired(detector)

\* C12: settings whose ALERT_THRESHOLD_CRITICAL is not strictly greater than
\* ALERT_THRESHOLD_WARNING are never in force: Settings() rejects them, so
\* no score is ever classified with such thresholds.
C12_ThresholdsOrderedWhenClassifying ==
    scoring.called =>
        settings.ALERT_THRESHOLD_CRITICAL > settings.ALERT_THRESHOLD_WARNING

\* C13: in every PredictionResponse that POST /predict has answered,
\* is_anomaly is true exactly when the estimator's own decision for the
\* reading was -1, whatever the severity of the response is.
C13_IsAnomalyIsTheNativeDecision ==
    \A answer \in returned : answer.is_anomaly <=> (answer.prediction = -1)

\* C13, its case: every combination of is_anomaly with a severity has been
\* answered.
C13_Witness ==
    \A is_anomaly \in BOOLEAN, severity \in {"info", "warning", "critical"} :
        \E answer \in returned :
            answer.is_anomaly = is_anomaly /\ answer.severity = severity

\* C14: every batch that POST /predict/batch or POST /predict/upload hands
\* to predict_batch comes from a list of 1 to 1000 readings with pairwise
\* distinct sensor_ids, and holds 1 to 1000 readings with distinct
\* sensor_ids itself; an empty list, a list of more than 1000 readings or
\* one with a repeated sensor_id is rejected and none of its readings is
\* handed to the detector.
C14_BatchesReachDetectorValidated ==
    request.endpoint \in {"/predict/batch", "/predict/upload"} =>
        LET wellFormed == /\ 1 <= Length(request.input)
                          /\ Length(request.input) <= 1000
                          /\ UniqueSensorIds(request.input)
        IN  /\ \A k \in 1..Len(request.calls) :
                  /\ wellFormed
                  /\ 1 <= Length(request.calls[k])
                  /\ Length(request.calls[k]) <= 1000
                  /\ UniqueSensorIds(request.calls[k])
            /\ ~wellFormed => (request.calls = <<>> /\ request.status # 200)

\* C14, its case: a list of exactly 1000 readings was accepted by
\* POST /predict/batch and scored in ten calls of predict_batch.
C14_Witness ==
    /\ request.endpoint = "/predict/batch"
    /\ request.status = 200
    /\ Length(request.input) = 1000
    /\ Len(request.input.head) = 1
    /\ Len(request.calls) = 10

FieldsInRange(sd) ==
    /\ sd.temperature # NaN
    /\ sd.temperature >= -50 /\ sd.temperature <= 100
    /\ sd.pressure >= 900 /\ sd.pressure <= 1100
    /\ sd.humidity >= 0 /\ sd.humidity <= 100
    /\ sd.vibration >= 0 /\ sd.vibration <= 10

\* C15: on every path (POST /predict, POST /predict/batch, POST
\* /predict/upload, the websocket) the detector is handed only readings
\* whose four fields are in range, and a request that holds a reading with
\* a field out of range is rejected without any reading being handed to the
\* detector.
C15_OnlyReadingsInRangeAreScored ==
    /\ \A k \in 1..Len(request.calls) :
          \A i \in 1..Len(request.calls[k].head) :
              FieldsInRange(request.calls[k].head[i])
    /\ (\E i \in 1..Len(request.input.head) : ~FieldsInRange(request.input.head[i]))
          => (request.calls = <<>> /\ request.status # 200)

\* C15, its case: an uploaded file with a row whose vibration is above 10
\* was rejected by a ready detector's API.
C15_Witness ==
    /\ request.endpoint = "/predict/upload"
    /\ detector.is_ready
    /\ Paired(detector)
    /\ request.status # 200
    /\ request.calls = <<>>
    /\ \E i \in 1..Len(request.input.head) :
          /\ request.input.head[i].vibration > 10
          /\ \A j \in 1..Len(request.input.head) :
                j # i => FieldsInRange(request.input.head[j])

\* C16: a train on fewer rows than the minimum a TrainingRequest may ask
\* for raises, and leaves the scaler and the model of the detector as they
\* were.
C16_TrainOnTooFewSamplesFails ==
    [][\A call \in TrainCalls, resets \in BOOLEAN :
          (call.X.rows < n_samples_ge
              /\ Train(call.X, call.algorithm, call.contamination, resets)) =>
                  /\ ~last'.ok
                  /\ detector'.scaler = detector.scaler
                  /\ detector'.model = detector.model]_vars

\* C17: when an alert was sent and the transport of exactly one enabled
\* sink failed, the caller got no exception and every enabled sink was
\* tried; when it was sent with AlertManager.send_alert, the alert is the
\* last record of alert_history and its alert_id was returned.
C17_SinkFailureIsIsolated ==
    (alerts.sent.via # "none"
        /\ Cardinality(alerts.sent.failing \cap alerts.sent.enabled) = 1) =>
        /\ alerts.sent.raised = "none"
        /\ alerts.sent.attempted = alerts.sent.enabled
        /\ alerts.sent.via = "AlertManager" =>
              LET history == alerts.manager.alert_history
              IN  /\ alerts.sent.alert_id # NoAlertId
                  /\ history # <<>>
                  /\ history[Len(history)].alert_id = alerts.sent.alert_id

\* C18: after acknowledge_alert has reported success for an alert_id and a
\* user, every alert with that alert_id that get_recent_alerts lists is
\* shown as acknowledged, by that user, with the time of acknowledgment.
C18_AcknowledgedAlertIsListedAcknowledged ==
    alerts.acked # NotAcked =>
        \A k \in 1..Len(alerts.listing.alerts) :
            LET alert == alerts.listing.alerts[k]
            IN  alert.alert_id = alerts.acked.alert_id =>
                    /\ alert.acknowledged
                    /\ alert.acknowledged_by = alerts.acked.user
                    /\ alert.acknowledged_at # NoTime

\* The detector serves what a training task asked for: Ready, with a fitted
\* model of the task's algorithm and contamination on a scaler of the same
\* training set; GET /model reports them and POST /predict answers.
Serves(task) ==
    /\ detector.is_ready
    /\ Paired(detector)
    /\ detector.model.model_type = task.algorithm
    /\ detector.model.contamination = task.contamination
    /\ get_model_info(detector).status = "ok"
    /\ get_model_info(detector).info.model_type = task.algorithm
    /\ get_model_info(detector).info.contamination = task.contamination
    /\ predict_anomaly(detector, settings, FillerReading).status = 200

\* C19: POST /model/train answers without touching the detector (the
\* training has not run when it answers), and every training request it
\* accepted leads to a state where the background task has run and the
\* detector of the prediction endpoints is Ready with a model of the
\* requested algorithm and contamination.
C19_AcceptedTrainingEventuallyServes ==
    /\ [][last'.op = "train_model" =>
            /\ detector' = detector
            /\ (last'.ok => Len(tasks') = Len(tasks) + 1 /\ tasks'[Len(tasks')] = last'.arg)]_vars
    /\ \A body \in {b \in TrainingBodies : TrainingRequest(b).raised = "none"} :
          (\E i \in 1..Len(tasks) : tasks[i] = body)
              ~> (last = Call("train_new_model", body, TRUE) /\ Serves(body))
C19_Witness ==
    /\ last.op = "train_new_model"
    /\ last.arg.algorithm = "lof"
    /\ Len(detector.training_history) = 2
    /\ detector.training_history[1].algorithm = "one_class_svm"
    /\ Serves(last.arg)

\* C20: a predict_single or a predict_batch, whether it returns or raises,
\* leaves the detector as it was (model, scaler, model_info, is_ready and
\* training_history), so that every reading is answered after it as it
\* would have been answered before it.
C20_PredictLeavesDetectorUnchanged ==
    [][last'.op \in {"predict_single", "predict_batch"} =>
          /\ detector' = detector
          /\ \A sd \in SensorReadings :
                predict_single(detector', settings', sd) = predict_single(detector, settings, sd)]_vars
C20_Witness ==
    /\ last.op \in {"predict_single", "predict_batch"}
    /\ ~last.ok
    /\ detector.is_ready
    /\ detector.training_history # <<>>

\* C21: whenever the detector is Ready, get_model_info reports the
\* model_type and the contamination of the model that predict uses.
C21_ModelInfoDescribesActiveModel ==
    detector.is_ready =>
        /\ get_model_info(detector).status = "ok"
        /\ get_model_info(detector).info.model_type = detector.model.model_type
        /\ get_model_info(detector).info.contamination = detector.model.contamination

\* C22: POST /predict, POST /predict/batch and GET /model, asked of a
\* detector that is not Ready with a body FastAPI accepts, answer with
\* status 503 and hand nothing to the detector.
C22_NotReadyIsAnswered503 ==
    (/\ request.endpoint \in {"/predict", "/predict/batch", "/model"}
     /\ last.op \in {"predict_anomaly", "predict_batch_anomalies", "get_model_info"}
     /\ request.status # 422
     /\ ~detector.is_ready)
        => (request.status = 503 /\ request.calls = <<>>)

\* C23: whenever is_ready is true, the model of the detector is a fitted
\* estimator (not None, not an estimator that was assigned and never
\* fitted) and its scaler is fitted.
C23_ReadyMeansFittedModelAndScaler ==
    detector.is_ready =>
        /\ detector.model.kind = "estimator"
        /\ detector.model.fitted
        /\ detector.scaler.fitted

\* C24: GET /health and the prediction endpoints look at the same
\* detector: when health_check has just reported model_status "healthy",
\* POST /predict hands a valid reading to its detector (it is not rejected
\* as not ready), and when the detector of the prediction endpoints is
\* Ready, health_check reports "healthy".
C24_HealthAndPredictSeeOneDetector ==
    last.op = "health_check" =>
        /\ last.arg = "healthy" =>
              predict_anomaly(detector, settings, FillerReading).calls # <<>>
        /\ detector.is_ready => last.arg = "healthy"

\* C25: when startup_event has completed without raising, the detector it
\* initialised is Ready.
C25_StartedMeansReady ==
    app.started => app.detector.is_ready

\* The recommended actions that belong to a severity.
ActionsOf(severity) ==
    CASE severity = "critical" -> CriticalActions
      [] severity = "warning" -> WarningActions
      [] OTHER -> InfoActions

\* C26: the recommendations of every PredictionResponse predict returns
\* are those of the severity the response carries, for every score and
\* every configured pair of thresholds.
C26_RecommendationsBelongToSeverity ==
    (scoring.called /\ scoring.raised = "none") =>
        scoring.response.recommendations = ActionsOf(scoring.response.severity)

\* The raw scores of an isolation forest: score_samples lies in [-1, 0].
IsolationForestRaws == {raw \in RawInputs : raw >= 0 - Unit /\ raw <= 0}

\* C30: with an isolation forest and the default thresholds, each of the
\* severities info, warning and critical is the severity of the response
\* of predict for some raw score in [-1, 0].
C30_EverySeverityAttainableByIsolationForest ==
    settings = DefaultSettings =>
        \A severity \in {"info", "warning", "critical"} :
            \E raw \in IsolationForestRaws, prediction \in {-1, 1} :
                LET r == to_response(FittedEstimator("isolation_forest"), settings,
                                     1, prediction, raw)
                IN  r.raised = "none" /\ r.response.severity = severity

\* C27: a batch of n readings (1 <= n <= 1000) that POST /predict/batch
\* answers with status 200 is answered with n predictions in the order of
\* the readings, the i-th carrying the sensor_id of the i-th reading, and
\* with summary.total_readings = n.
C27_BatchAnsweredInOrder ==
    (last.op = "predict_batch_anomalies" /\ request.status = 200) =>
        LET readings == request.input
            predictions == request.response.predictions
        IN  /\ Len(predictions.head) = Len(readings.head)
            /\ predictions.extra = readings.extra
            /\ \A i \in 1..Len(readings.head) :
                  predictions.head[i].sensor_id = readings.head[i].sensor_id
            /\ request.response.summary.total_readings = Length(readings)
C27_Witness ==
    /\ last.op = "predict_batch_anomalies"
    /\ request.status = 200
    /\ request.input = LongList
    /\ Len(request.calls) = 2
    /\ Len(request.response.predictions.head) = batch_size + 2

\* C28: in the summary of every batch that POST /predict/batch answers,
\* critical_anomalies <= anomalies_detected <= total_readings, and
\* anomaly_rate = anomalies_detected / total_readings.
C28_SummaryCountsAreNested ==
    (last.op = "predict_batch_anomalies" /\ request.status = 200) =>
        LET summary == request.response.summary
        IN  /\ summary.critical_anomalies <= summary.anomalies_detected
            /\ summary.anomalies_detected <= summary.total_readings
            /\ summary.anomaly_rate =
                  DivRound(summary.anomalies_detected * Unit, summary.total_readings)

\* C29: the alert_ids of the records in alert_history are pairwise
\* distinct, also those of alerts sent within one second of the clock, and
\* a send_alert that has returned has returned the alert_id of the record
\* it appended last.
C29_AlertIdsAreDistinct ==
    LET history == alerts.manager.alert_history
    IN  /\ \A i, j \in 1..Len(history) :
              history[i].alert_id = history[j].alert_id => i = j
        /\ (last.op = "send_alert" /\ last.ok) =>
              /\ history # <<>>
              /\ alerts.sent.alert_id = history[Len(history)].alert_id

====
